---- MODULE Spec2Model ----
(***************************************************************************)
(* A model of src/main.rs of sudoku_solver: the interactive grid editor    *)
(* (SudokuInput and the event loop of run), the board (Puzzle) built by    *)
(* Puzzle::from_array or by _parse from a text, its rendering, and         *)
(* Puzzle::solve, which encodes the board for the external solver, makes   *)
(* one check() and decodes the model it gets.                              *)
(***************************************************************************)
EXTENDS Integers, Sequences, FiniteSets, TLC

VARIABLES
    pc,             \* position in the run: "edit", "array", "parse", "built",
                    \* "done"; "io_error" when run has returned an Err,
                    \* "parse_error" when _parse has, "panic" after a panic
    grid,           \* SudokuInput.grid[row][col] : Option<u8>
    cursor_row,     \* SudokuInput.cursor_row
    cursor_col,     \* SudokuInput.cursor_col
    quit,           \* the local quit of run
    event,          \* the input event of the current iteration of the loop
    nEvents,        \* number of input events read so far
    arr,            \* the [[u8; 9]; 9] handed to Puzzle::from_array
    input,          \* the text handed to _parse, a sequence of characters
    data,           \* Puzzle.data : BTreeMap<String, Option<u8>>
    initial_cells,  \* Puzzle.initial_cells : HashSet<String>
    result,         \* what solver.check() returned
    checks,         \* number of solver.check() calls made
    model_reads,    \* number of solver.get_model() calls made
    terminal,       \* the modes of the terminal that run sets and restores
    restores        \* number of times run has begun to restore the terminal

vars == <<pc, grid, cursor_row, cursor_col, quit, event, nEvents, arr, input,
          data, initial_cells, result, checks, model_reads, terminal, restores>>

editor == <<grid, cursor_row, cursor_col>>
puzzle == <<data, initial_cells>>
solver == <<result, checks, model_reads>>
tty == <<terminal, restores>>

----------------------------------------------------------------------------
(* Bounds of the exploration.                                              *)

\* input events the editor reads before it has to quit
MaxEvents == 4
\* cells of a solver model that may deviate from a Sudoku solution
MaxPerturb == 2
\* cells of an input array of from_array that are drawn freely
MaxArrCells == 3

(* Program constants.                                                      *)

\* side of the grid: [[Option<u8>; 9]; 9]
N == 9
\* side of a box: for box_row in 0..3
BoxSize == 3
\* u8 arithmetic is modulo 2^8
U8 == 256

Idx == 0 .. (N - 1)

\* Option<u8>::None; Some(v) is the number v
None == -1

----------------------------------------------------------------------------
(* SudokuInput                                                             *)

EmptyGrid == [row \in Idx |-> [col \in Idx |-> None]]

\* the % of i32, whose remainder has the sign of the dividend
rem_truncated(a, n) == IF a < 0 THEN -((-a) % n) ELSE a % n

\* i32::rem_euclid: the least non-negative remainder
rem_euclid(a, n) == a % n

new_row(row, dr) == rem_euclid(row + dr, N)

\* a column kept at the edge instead of wrapped
new_col_clamped(col, dc) ==
    IF col + dc > N - 1 THEN N - 1 ELSE IF col + dc < 0 THEN 0 ELSE col + dc

new_col(col, dc) == rem_euclid(col + dc, N)

\* move_cursor(dr, dc) called n times from (row, col)
RECURSIVE move_cursor_times(_, _, _, _, _)
move_cursor_times(n, row, col, dr, dc) ==
    IF n = 0
    THEN <<row, col>>
    ELSE move_cursor_times(n - 1, new_row(row, dr), new_col(col, dc), dr, dc)

\* the cell the cursor leaves emptied
move_cursor_clearing(dr, dc) ==
    /\ cursor_row' = new_row(cursor_row, dr)
    /\ cursor_col' = new_col(cursor_col, dc)
    /\ grid' = [grid EXCEPT ![cursor_row][cursor_col] = None]

move_cursor(dr, dc) ==
    /\ cursor_row' = new_row(cursor_row, dr)
    /\ cursor_col' = new_col(cursor_col, dc)
    /\ UNCHANGED grid

\* the indices of the cell exchanged
set_value_grid_swapped(val) == [grid EXCEPT ![cursor_col][cursor_row] = val]

set_value_grid(val) == [grid EXCEPT ![cursor_row][cursor_col] = val]

set_value(val) ==
    /\ grid' = set_value_grid(val)
    /\ UNCHANGED <<cursor_row, cursor_col>>

\* the row of the cursor alone emptied
reset_grid_row == [grid EXCEPT ![cursor_row] = [col \in Idx |-> None]]

reset_grid == EmptyGrid

reset ==
    /\ grid' = reset_grid
    /\ UNCHANGED <<cursor_row, cursor_col>>

unwrap_or(opt, default) == IF opt = None THEN default ELSE opt

to_array(g) == [row \in Idx |-> [col \in Idx |-> unwrap_or(g[row][col], 0)]]

----------------------------------------------------------------------------
(* Input events: what event::read() can return.                            *)

Key(kind) == [type |-> "Key", kind |-> kind, ch |-> ""]
Char(c) == [type |-> "Key", kind |-> "Char", ch |-> c]
NonKey(type) == [type |-> type, kind |-> "", ch |-> ""]
NoEvent == NonKey("")

DigitChars == <<"1", "2", "3", "4", "5", "6", "7", "8", "9">>

Chars == {"q", "Q", "w", "W", "s", "S", "a", "A", "d", "D", "r", "R",
          "0", " ", "x"}
         \cup {DigitChars[i] : i \in 1 .. 9}

SpecialKeys == {"Up", "Down", "Left", "Right", "Esc", "Backspace", "Delete",
                "Enter"}

KeyEvents == {Char(c) : c \in Chars} \cup {Key(k) : k \in SpecialKeys}

NonKeyEvents == {NonKey("Resize"), NonKey("Mouse")}

\* the arms of the match on code in run, in their order
match_code(ev) ==
    IF ev \in {Char("q"), Char("Q"), Key("Esc")} THEN "quit"
    ELSE IF ev \in {Key("Up"), Char("w"), Char("W")} THEN "up"
    ELSE IF ev \in {Key("Down"), Char("s"), Char("S")} THEN "down"
    ELSE IF ev \in {Key("Left"), Char("a"), Char("A")} THEN "left"
    ELSE IF ev \in {Key("Right"), Char("d"), Char("D")} THEN "right"
    ELSE IF ev = Char("1") THEN "1"
    ELSE IF ev = Char("2") THEN "2"
    ELSE IF ev = Char("3") THEN "3"
    ELSE IF ev = Char("4") THEN "4"
    ELSE IF ev = Char("5") THEN "5"
    ELSE IF ev = Char("6") THEN "6"
    ELSE IF ev = Char("7") THEN "7"
    ELSE IF ev = Char("8") THEN "8"
    ELSE IF ev = Char("9") THEN "9"
    ELSE IF ev \in {Char("0"), Char(" "), Key("Backspace"), Key("Delete")}
         THEN "clear"
    ELSE IF ev \in {Char("r"), Char("R")} THEN "reset"
    ELSE "_"

\* Enter taken for a quit key as well
MatchArmEnterQuits(ev) == IF ev = Key("Enter") THEN "quit" ELSE match_code(ev)

\* the arm of the match on code in run that a key event takes
MatchArm(ev) == match_code(ev)

\* the value the arm of a digit key hands to set_value
ArmValue(arm) ==
    CASE arm = "1" -> 1 [] arm = "2" -> 2 [] arm = "3" -> 3
      [] arm = "4" -> 4 [] arm = "5" -> 5 [] arm = "6" -> 6
      [] arm = "7" -> 7 [] arm = "8" -> 8 [] arm = "9" -> 9

DigitArms == {"1", "2", "3", "4", "5", "6", "7", "8", "9"}

\* the key events that take each arm
QuitEvents == {ev \in KeyEvents : MatchArm(ev) = "quit"}
UpEvents == {ev \in KeyEvents : MatchArm(ev) = "up"}
DownEvents == {ev \in KeyEvents : MatchArm(ev) = "down"}
LeftEvents == {ev \in KeyEvents : MatchArm(ev) = "left"}
RightEvents == {ev \in KeyEvents : MatchArm(ev) = "right"}
DigitEvents == {ev \in KeyEvents : MatchArm(ev) \in DigitArms}
ClearEvents == {ev \in KeyEvents : MatchArm(ev) = "clear"}
ResetEvents == {ev \in KeyEvents : MatchArm(ev) = "reset"}
OtherEvents == {ev \in KeyEvents : MatchArm(ev) = "_"}

\* one iteration of while !quit: display, event::read, then the match
ReadEvent(ev) ==
    /\ pc = "edit"
    /\ ~quit
    /\ nEvents < MaxEvents
    /\ event' = ev
    /\ nEvents' = nEvents + 1
    /\ UNCHANGED <<pc, arr, input, puzzle, solver, tty>>

Quit ==
    \E ev \in QuitEvents :
        /\ pc = "edit"
        /\ ~quit
        /\ event' = ev
        /\ nEvents' = nEvents + 1
        /\ quit' = TRUE
        /\ UNCHANGED <<pc, editor, arr, input, puzzle, solver, tty>>

MoveUp ==
    \E ev \in UpEvents :
        /\ ReadEvent(ev)
        /\ move_cursor(-1, 0)
        /\ UNCHANGED quit

MoveDown ==
    \E ev \in DownEvents :
        /\ ReadEvent(ev)
        /\ move_cursor(1, 0)
        /\ UNCHANGED quit

MoveLeft ==
    \E ev \in LeftEvents :
        /\ ReadEvent(ev)
        /\ move_cursor(0, -1)
        /\ UNCHANGED quit

MoveRight ==
    \E ev \in RightEvents :
        /\ ReadEvent(ev)
        /\ move_cursor(0, 1)
        /\ UNCHANGED quit

SetDigit ==
    \E ev \in DigitEvents :
        /\ ReadEvent(ev)
        /\ set_value(ArmValue(MatchArm(ev)))
        /\ UNCHANGED quit

Clear ==
    \E ev \in ClearEvents :
        /\ ReadEvent(ev)
        /\ set_value(None)
        /\ UNCHANGED quit

Reset ==
    \E ev \in ResetEvents :
        /\ ReadEvent(ev)
        /\ reset
        /\ UNCHANGED quit

OtherKey ==
    \E ev \in OtherEvents :
        /\ ReadEvent(ev)
        /\ UNCHANGED <<editor, quit>>

\* if let Event::Key(..) = event::read()? does not match: nothing is done
NotAKey ==
    \E ev \in NonKeyEvents :
        /\ ReadEvent(ev)
        /\ UNCHANGED <<editor, quit>>

----------------------------------------------------------------------------
(* Cell keys: a column letter followed by a row digit.                      *)

\* match i { 0 => 'a', ..., 8 => 'i', _ => panic!("more than 9 columns") }
col_letter(i) ==
    CASE i = 0 -> "a" [] i = 1 -> "b" [] i = 2 -> "c"
      [] i = 3 -> "d" [] i = 4 -> "e" [] i = 5 -> "f"
      [] i = 6 -> "g" [] i = 7 -> "h" [] i = 8 -> "i"

\* (b'0' + j as u8) as char, for the bytes '0' .. '9'
AsciiDigits == <<"0", "1", "2", "3", "4", "5", "6", "7", "8", "9">>

\* the count begun at the byte '1'
byte_char_from_one(j) == AsciiDigits[((49 + j) % U8) - 47]

byte_char(j) == AsciiDigits[((48 + j) % U8) - 47]

\* format!("{}{}", letter, (b'0' + j as u8) as char) of from_array
key_char(i, j) == col_letter(i) \o byte_char(j)

\* format!("{}{}", letter, row) of Display::fmt and solve
key_fmt(col, row) == col_letter(col) \o ToString(row)

----------------------------------------------------------------------------
(* Puzzle::from_array                                                      *)

\* matches!(value, 0..=9)
is_digit_or_zero(value) == value \in 0 .. 9

\* matches!(value, 1..=9)
is_digit(value) == value \in 1 .. 9

\* the (j, i) pairs in the order of data.iter().enumerate().flat_map(..)
CellOrder == [n \in 1 .. (N * N) |-> <<(n - 1) \div N, (n - 1) % N>>]

\* the key of the n-th cell, in iteration order
from_array_keys ==
    [n \in 1 .. (N * N) |-> key_char(CellOrder[n][2], CellOrder[n][1])]

\* the n-th value of the array, in iteration order
array_value(a, n) == a[CellOrder[n][1]][CellOrder[n][2]]

\* every key kept, as by data.keys()
from_array_cells_all(a) == {from_array_keys[n] : n \in 1 .. (N * N)}

\* initial_cells: the keys of the cells that filter_map keeps
from_array_cells(a) ==
    {from_array_keys[n] : n \in {m \in 1 .. (N * N) : is_digit(array_value(a, m))}}

from_array_value(value) == IF is_digit(value) THEN value ELSE None

\* Iterator::collect into a BTreeMap: of the (key, value) pairs with one
\* key the last one in iteration order stays; this is its place
from_array_last ==
    [k \in {from_array_keys[n] : n \in 1 .. (N * N)} |->
        CHOOSE n \in 1 .. (N * N) :
            /\ from_array_keys[n] = k
            /\ \A m \in 1 .. (N * N) : from_array_keys[m] = k => m <= n]

\* data: the map collected from the 81 (key, value) pairs
from_array_data(a) ==
    [k \in DOMAIN from_array_last |->
        from_array_value(array_value(a, from_array_last[k]))]

ZeroArray == [row \in Idx |-> [col \in Idx |-> 0]]
NoData == [k \in {} |-> None]
NoInput == <<>>

----------------------------------------------------------------------------
(* _parse: a text is a sequence of characters, and a character is written  *)
(* as a string with one letter for each byte of its UTF-8 encoding.  A     *)
(* parser returns ParseErr, or what it read (out) and the text left (rest). *)

LF == "\n"
CR == "\r"

ParseErr == [ok |-> FALSE, rest |-> <<>>, out |-> <<>>]
ParseOk(rest, out) == [ok |-> TRUE, rest |-> rest, out |-> out]

\* bytes::complete::take(n): the next n characters, whatever they are
take(i, n) ==
    IF Len(i) >= n
    THEN ParseOk(SubSeq(i, n + 1, Len(i)), SubSeq(i, 1, n))
    ELSE ParseErr

\* multi::count(take(1usize), n): n times take(1), an Err when one is
RECURSIVE count_take(_, _, _)
count_take(i, n, acc) ==
    IF n = 0
    THEN ParseOk(i, acc)
    ELSE LET r == take(i, 1)
         IN  IF r.ok THEN count_take(r.rest, n - 1, Append(acc, r.out[1]))
             ELSE ParseErr

\* character::complete::line_ending: "\n" or "\r\n"
line_ending(i) ==
    IF Len(i) >= 1 /\ i[1] = LF THEN ParseOk(Tail(i), <<LF>>)
    ELSE IF Len(i) >= 2 /\ i[1] = CR /\ i[2] = LF
         THEN ParseOk(SubSeq(i, 3, Len(i)), <<CR, LF>>)
         ELSE ParseErr

\* the loop of multi::separated_list1: a separator and a row, as long as
\* both are there; the text is left before a separator no row follows
RECURSIVE separated_list_loop(_, _)
separated_list_loop(i, res) ==
    LET s == line_ending(i)
    IN  IF ~s.ok THEN ParseOk(i, res)
        ELSE LET r == count_take(s.rest, N, <<>>)
             IN  IF ~r.ok THEN ParseOk(i, res)
                 ELSE IF Len(r.rest) = Len(i) THEN ParseErr
                 ELSE separated_list_loop(r.rest, Append(res, r.out))

\* separated_list1(line_ending, count(take(1usize), 9))
separated_list1(i) ==
    LET r == count_take(i, N, <<>>)
    IN  IF r.ok THEN separated_list_loop(r.rest, <<r.out>>) ELSE ParseErr

\* opt(line_ending)
opt_line_ending(i) ==
    LET s == line_ending(i) IN IF s.ok THEN s ELSE ParseOk(i, <<>>)

\* all_consuming((separated_list1(..), opt(line_ending))).parse(input)
parse_rows(i) ==
    LET l == separated_list1(i)
    IN  IF ~l.ok THEN ParseErr
        ELSE LET o == opt_line_ending(l.rest)
             IN  IF o.rest = <<>> THEN ParseOk(o.rest, l.out) ELSE ParseErr

\* str::len: the number of bytes
str_len(ch) == Len(ch)

\* the three assert! on the rows read
asserts_hold(rows) ==
    /\ Len(rows) = N
    /\ \A j \in DOMAIN rows :
        /\ Len(rows[j]) = N
        /\ \A i \in DOMAIN rows[j] : str_len(rows[j][i]) = 1

\* match ch { '1'..='9' => Some(ch.to_digit(10).unwrap() as u8), _ => None }
parse_value(ch) ==
    IF \E v \in 1 .. 9 : DigitChars[v] = ch
    THEN CHOOSE v \in 1 .. 9 : DigitChars[v] = ch
    ELSE None

\* the key of the n-th character of 9 rows, in iteration order:
\* format!("{}{j}", letter of i)
parse_keys ==
    [n \in 1 .. (N * N) |-> key_fmt(CellOrder[n][2], CellOrder[n][1])]

\* collect into a BTreeMap: the place of the last pair with each key
parse_last ==
    [k \in {parse_keys[n] : n \in 1 .. (N * N)} |->
        CHOOSE n \in 1 .. (N * N) :
            /\ parse_keys[n] = k
            /\ \A m \in 1 .. (N * N) : parse_keys[m] = k => m <= n]

\* data: the map collected from the characters of the 9 rows
parse_data(rows) ==
    [k \in DOMAIN parse_last |->
        parse_value(rows[CellOrder[parse_last[k]][1] + 1]
                        [CellOrder[parse_last[k]][2] + 1])]

\* initial_cells: data.keys().cloned().collect()
parse_cells(d) == DOMAIN d

\* the parser returns an Err, which the ? of _parse returns
ParseError ==
    /\ pc = "parse"
    /\ ~parse_rows(input).ok
    /\ pc' = "parse_error"
    /\ UNCHANGED <<editor, quit, event, nEvents, arr, input, puzzle, solver,
                   tty>>

\* the parser returns rows, and an assert! on them panics
ParsePanic ==
    /\ pc = "parse"
    /\ parse_rows(input).ok
    /\ ~asserts_hold(parse_rows(input).out)
    /\ pc' = "panic"
    /\ UNCHANGED <<editor, quit, event, nEvents, arr, input, puzzle, solver,
                   tty>>

\* _parse returns a Puzzle
Parse ==
    /\ pc = "parse"
    /\ parse_rows(input).ok
    /\ asserts_hold(parse_rows(input).out)
    /\ data' = parse_data(parse_rows(input).out)
    /\ initial_cells' = parse_cells(data')
    /\ pc' = "built"
    /\ UNCHANGED <<editor, quit, event, nEvents, arr, input, solver, tty>>

----------------------------------------------------------------------------
(* Puzzle::solve: the encoding                                             *)

\* the 81 names of int_vars.insert(..)
IntVarList == <<
    "a0", "a1", "a2", "a3", "a4", "a5", "a6", "a7", "a8",
    "b0", "b1", "b2", "b3", "b4", "b5", "b6", "b7", "b8",
    "c0", "c1", "c2", "c3", "c4", "c5", "c6", "c7", "c8",
    "d0", "d1", "d2", "d3", "d4", "d5", "d6", "d7", "d8",
    "e0", "e1", "e2", "e3", "e4", "e5", "e6", "e7", "e8",
    "f0", "f1", "f2", "f3", "f4", "f5", "f6", "f7", "f8",
    "g0", "g1", "g2", "g3", "g4", "g5", "g6", "g7", "g8",
    "h0", "h1", "h2", "h3", "h4", "h5", "h6", "h7", "h8",
    "i0", "i1", "i2", "i3", "i4", "i5", "i6", "i7", "i8">>

IntVarKeys == {IntVarList[n] : n \in DOMAIN IntVarList}

Assertion(op, vs, val) == [op |-> op, vars |-> vs, val |-> val]

\* int_var.ge(1) and int_var.le(9) for every variable
RangeAssertions ==
    {Assertion("ge", <<k>>, 1) : k \in IntVarKeys}
    \cup {Assertion("le", <<k>>, 9) : k \in IntVarKeys}

\* the box loop building the row of index box_row * 3 + box_col again
box_vars_as_rows(box_row, box_col) ==
    [n \in 1 .. N |-> key_fmt(n - 1, box_row * BoxSize + box_col)]

\* the offsets of a box taken for its first column and row
box_vars_no_stride(box_row, box_col) ==
    [n \in 1 .. (BoxSize * BoxSize) |->
        key_fmt(box_col + ((n - 1) % BoxSize), box_row + ((n - 1) \div BoxSize))]

row_vars(row) == [n \in 1 .. N |-> key_fmt(n - 1, row)]
col_vars(col) == [n \in 1 .. N |-> key_fmt(col, n - 1)]
box_vars(box_row, box_col) ==
    [n \in 1 .. (BoxSize * BoxSize) |->
        key_fmt(box_col * BoxSize + ((n - 1) % BoxSize),
                box_row * BoxSize + ((n - 1) \div BoxSize))]

RowAssertions == {Assertion("distinct", row_vars(row), 0) : row \in Idx}
ColAssertions == {Assertion("distinct", col_vars(col), 0) : col \in Idx}
BoxAssertions ==
    {Assertion("distinct", box_vars(br, bc), 0) :
        <<br, bc>> \in (0 .. (BoxSize - 1)) \X (0 .. (BoxSize - 1))}

\* no entry of data finding its variable
clue_keys_none(d) == {}

\* an equality for every key of the clue set that names a variable
clue_keys_marked(d) == {k \in DOMAIN d : k \in initial_cells /\ k \in IntVarKeys}

\* int_var.eq(v) for every entry of data that is Some(v) and names a variable
clue_keys(d) == {k \in DOMAIN d : d[k] # None /\ k \in IntVarKeys}
ClueAssertions(d) == {Assertion("eq", <<k>>, d[k]) : k \in clue_keys(d)}

StructuralAssertions ==
    RangeAssertions \cup RowAssertions \cup ColAssertions \cup BoxAssertions

Assertions(d) == StructuralAssertions \cup ClueAssertions(d)

----------------------------------------------------------------------------
(* The external solver.  check() answers Sat only with a model that        *)
(* satisfies every assertion made, Unsat only when no assignment does, and *)
(* may always answer Unknown.  Here the assignments it can return are      *)
(* drawn from Candidates: Sudoku solutions, Latin squares that are no      *)
(* Sudoku solutions, and both with a single cell replaced by an arbitrary  *)
(* integer; and, for a board without an empty entry, the assignment of its *)
(* own digits, which is the only one its equalities allow.  Unsat is       *)
(* answered when none of these satisfies the assertions, which is at       *)
(* least wherever the solver can answer it.                                *)

\* position (col, row) of a variable, from the order of the insert calls
VarPos ==
    [k \in IntVarKeys |->
        LET n == CHOOSE n \in DOMAIN IntVarList : IntVarList[n] = k
        IN  <<(n - 1) \div N, (n - 1) % N>>]

SudokuValue(col, row, s) ==
    ((BoxSize * (row % BoxSize) + (row \div BoxSize) + col + s) % N) + 1

LatinValue(col, row, s) == ((row + col + s) % N) + 1

BaseModels ==
    {[k \in IntVarKeys |-> SudokuValue(VarPos[k][1], VarPos[k][2], s)] : s \in Idx}
    \cup {[k \in IntVarKeys |-> SudokuValue(VarPos[k][2], VarPos[k][1], s)] : s \in Idx}
    \cup {[k \in IntVarKeys |-> LatinValue(VarPos[k][1], VarPos[k][2], s)] : s \in Idx}

PerturbList == <<"a0", "b0", "a1", "i8", "e4", "b1">>
PerturbKeys == {PerturbList[n] : n \in 1 .. MaxPerturb}
PerturbValues == (0 .. 10) \cup {U8 + 1, -1}

Candidates ==
    BaseModels
    \cup {[m EXCEPT ![k] = v] :
            <<m, k, v>> \in BaseModels \X PerturbKeys \X PerturbValues}

Holds(m, a) ==
    CASE a.op = "ge" -> m[a.vars[1]] >= a.val
      [] a.op = "le" -> m[a.vars[1]] <= a.val
      [] a.op = "eq" -> m[a.vars[1]] = a.val
      [] a.op = "distinct" ->
            \A i, j \in DOMAIN a.vars : i < j => m[a.vars[i]] # m[a.vars[j]]

\* the candidate assignments satisfying the assertions made for every board
StructuralModels ==
    {m \in Candidates : \A a \in StructuralAssertions : Holds(m, a)}

\* the assignment of its own digits, for a board without an empty entry
BoardModels(d) ==
    IF \A k \in IntVarKeys : k \in DOMAIN d /\ d[k] # None
    THEN {[k \in IntVarKeys |-> d[k]]}
    ELSE {}

\* the candidate assignments satisfying Assertions(d): for a board without
\* an empty entry no assignment but its own can
Models(d) ==
    IF BoardModels(d) # {}
    THEN {m \in BoardModels(d) : \A a \in Assertions(d) : Holds(m, a)}
    ELSE LET clues == ClueAssertions(d)
         IN  {m \in StructuralModels : \A a \in clues : Holds(m, a)}

----------------------------------------------------------------------------
(* Puzzle::solve: the decoding                                             *)

\* the byte of the digit's character
as_u8_char(v) == (v + 48) % U8

\* model.eval(int_var, true).unwrap().as_i64().unwrap() as u8
as_u8(v) == v % U8

\* self.data.entry(key).and_modify(|e| *e = Some(value)) for every variable
decode(d, m) ==
    [k \in DOMAIN d |-> IF k \in IntVarKeys THEN as_u8(m[k]) ELSE d[k]]

----------------------------------------------------------------------------
(* Display for Puzzle: what println!("{puzzle}") writes, as the text and   *)
(* the style of each cell of each row.                                     *)

\* the cell of the key built from the row first
fmt_cell_transposed(d, cells, col, row) ==
    LET key == key_fmt(row, col)
    IN  IF d[key] # None
        THEN [text |-> byte_char(d[key]),
              style |-> IF key \in cells THEN "plain" ELSE "blue_bold"]
        ELSE [text |-> " ", style |-> "plain"]

\* one write!(f, " {} |", ..): the digit of self.data.get(&key).unwrap(),
\* plain for a key of initial_cells and blue and bold otherwise, or a blank
fmt_cell(d, cells, col, row) ==
    LET key == key_fmt(col, row)
    IN  IF d[key] # None
        THEN [text |-> byte_char(d[key]),
              style |-> IF key \in cells THEN "plain" ELSE "blue_bold"]
        ELSE [text |-> " ", style |-> "plain"]

\* for row in 0..9 { for col in 0..9 { .. } }
fmt(d, cells) ==
    [row \in Idx |-> [col \in Idx |-> fmt_cell(d, cells, col, row)]]

----------------------------------------------------------------------------
(* run, after the editing loop                                             *)

\* the terminal after enable_raw_mode and execute!(EnterAlternateScreen, Hide)
TerminalSetUp ==
    [raw_mode |-> TRUE, alternate_screen |-> TRUE, cursor_hidden |-> TRUE]

\* execute!(io::stdout(), cursor::Show, terminal::LeaveAlternateScreen)
execute_show_leave(t) ==
    [t EXCEPT !.cursor_hidden = FALSE, !.alternate_screen = FALSE]

\* terminal::disable_raw_mode()
disable_raw_mode(t) == [t EXCEPT !.raw_mode = FALSE]

\* sudoku.display()? or event::read()? is an Err in an iteration of the
\* loop: run returns it at once and main prints it
IoError ==
    /\ pc = "edit"
    /\ ~quit
    /\ pc' = "io_error"
    /\ event' = NoEvent
    /\ UNCHANGED <<editor, quit, nEvents, arr, input, puzzle, solver, tty>>

\* while !quit ends; the terminal is restored, then
\* Puzzle::from_array(&sudoku.to_array())
ExitLoop ==
    /\ pc = "edit"
    /\ quit
    /\ restores' = restores + 1
    /\ terminal' = disable_raw_mode(execute_show_leave(terminal))
    /\ arr' = to_array(grid)
    /\ pc' = "array"
    /\ event' = NoEvent
    /\ UNCHANGED <<editor, quit, nEvents, input, puzzle, solver>>

\* while !quit ends; execute!(Show, LeaveAlternateScreen)? is an Err, or
\* disable_raw_mode()? after it is: run returns the Err and main prints it
RestoreError ==
    /\ pc = "edit"
    /\ quit
    /\ restores' = restores + 1
    /\ terminal' \in {terminal, execute_show_leave(terminal)}
    /\ pc' = "io_error"
    /\ event' = NoEvent
    /\ UNCHANGED <<editor, quit, nEvents, arr, input, puzzle, solver>>

FromArray ==
    /\ pc = "array"
    /\ data' = from_array_data(arr)
    /\ initial_cells' = from_array_cells(arr)
    /\ pc' = "built"
    /\ UNCHANGED <<editor, quit, event, nEvents, arr, input, solver, tty>>

\* the arms without a model emptying the board
match_check_clearing(res, d, m) ==
    IF res = "Sat" THEN decode(d, m) ELSE [k \in DOMAIN d |-> None]

\* match solver.check(): the board each arm leaves (m is the model read in
\* the Sat arm)
match_check(res, d, m) ==
    CASE res = "Sat" -> decode(d, m)
      [] res = "Unsat" -> d
      [] res = "Unknown" -> d

\* the model read before the match, whatever check() returned
get_model_calls_always(res) == 1

\* solver.get_model() is called in the Sat arm alone
get_model_calls(res) == IF res = "Sat" THEN 1 ELSE 0

NoModel == [k \in {} |-> 0]

\* puzzle.solve(): the encoding, the one solver.check() and its match
solve(res, m) ==
    /\ pc = "built"
    /\ result' = res
    /\ checks' = checks + 1
    /\ model_reads' = model_reads + get_model_calls(res)
    /\ data' = match_check(res, data, m)
    /\ pc' = "done"
    /\ UNCHANGED <<editor, quit, event, nEvents, arr, input, initial_cells,
                   tty>>

SolveSat == pc = "built" /\ \E m \in Models(data) : solve("Sat", m)

SolveUnsat == pc = "built" /\ Models(data) = {} /\ solve("Unsat", NoModel)

SolveUnknown == solve("Unknown", NoModel)

----------------------------------------------------------------------------
(* The interactive run.                                                    *)

Init ==
    /\ pc = "edit"
    /\ grid = EmptyGrid
    /\ cursor_row = 0
    /\ cursor_col = 0
    /\ quit = FALSE
    /\ event = NoEvent
    /\ nEvents = 0
    /\ arr = ZeroArray
    /\ input = NoInput
    /\ data = NoData
    /\ initial_cells = {}
    /\ result = "none"
    /\ checks = 0
    /\ model_reads = 0
    /\ terminal = TerminalSetUp
    /\ restores = 0

Next ==
    \/ Quit
    \/ MoveUp
    \/ MoveDown
    \/ MoveLeft
    \/ MoveRight
    \/ SetDigit
    \/ Clear
    \/ Reset
    \/ OtherKey
    \/ NotAKey
    \/ IoError
    \/ ExitLoop
    \/ RestoreError
    \/ FromArray
    \/ SolveSat
    \/ SolveUnsat
    \/ SolveUnknown

Spec == Init /\ [][Next]_vars

----------------------------------------------------------------------------
(* The editing loop alone.                                                 *)

NextEditor ==
    \/ Quit
    \/ MoveUp
    \/ MoveDown
    \/ MoveLeft
    \/ MoveRight
    \/ SetDigit
    \/ Clear
    \/ Reset
    \/ OtherKey
    \/ NotAKey

SpecEditor == Init /\ [][NextEditor]_vars

----------------------------------------------------------------------------
(* The editor's cursor from every cell it can be on.                        *)

InitCursor ==
    /\ pc = "edit"
    /\ grid = EmptyGrid
    /\ cursor_row \in Idx
    /\ cursor_col \in Idx
    /\ quit = FALSE
    /\ event = NoEvent
    /\ nEvents = 0
    /\ arr = ZeroArray
    /\ input = NoInput
    /\ data = NoData
    /\ initial_cells = {}
    /\ result = "none"
    /\ checks = 0
    /\ model_reads = 0
    /\ terminal = TerminalSetUp
    /\ restores = 0

NextCursor ==
    \/ MoveUp
    \/ MoveDown
    \/ MoveLeft
    \/ MoveRight

SpecCursor == InitCursor /\ [][NextCursor]_vars

----------------------------------------------------------------------------
(* Puzzle::from_array and Puzzle::solve on arrays of arbitrary bytes.      *)

\* the (row, col) cells of the input array that are drawn freely
ArrCellList == <<<<0, 0>>, <<0, 1>>, <<1, 0>>, <<8, 8>>, <<4, 4>>, <<1, 1>>>>
ArrCells == {ArrCellList[n] : n \in 1 .. MaxArrCells}
ArrValues == {0, 1, 5, 9, 10, U8 - 1}

ArrInputs ==
    {[row \in Idx |-> [col \in Idx |->
        IF <<row, col>> \in ArrCells THEN f[<<row, col>>] ELSE 0]] :
     f \in [ArrCells -> ArrValues]}

InitArr ==
    /\ pc = "array"
    /\ grid = EmptyGrid
    /\ cursor_row = 0
    /\ cursor_col = 0
    /\ quit = TRUE
    /\ event = NoEvent
    /\ nEvents = 0
    /\ arr \in ArrInputs
    /\ input = NoInput
    /\ data = NoData
    /\ initial_cells = {}
    /\ result = "none"
    /\ checks = 0
    /\ model_reads = 0
    /\ terminal = disable_raw_mode(execute_show_leave(TerminalSetUp))
    /\ restores = 1

NextArr ==
    \/ FromArray
    \/ SolveSat
    \/ SolveUnsat
    \/ SolveUnknown

SpecArr == InitArr /\ [][NextArr]_vars

----------------------------------------------------------------------------
(* Puzzle::from_array and Puzzle::solve on arrays without an empty cell.   *)

\* a Sudoku solution: a shift s of the base grid, transposed or not, with
\* rows 0 and 1 exchanged or not, and every digit v turned into 10 - v or not
FullGrid(s, transposed, exchanged, turned) ==
    [row \in Idx |-> [col \in Idx |->
        LET r == IF exchanged /\ row < 2 THEN 1 - row ELSE row
            v == IF transposed THEN SudokuValue(r, col, s)
                 ELSE SudokuValue(col, r, s)
        IN  IF turned THEN (N + 1) - v ELSE v]]

FullGrids ==
    {FullGrid(s, t, e, u) : s \in Idx, t \in BOOLEAN, e \in BOOLEAN, u \in BOOLEAN}

\* the Sudoku solutions, and those with one cell overwritten by a digit
FullInputs ==
    FullGrids
    \cup {[a EXCEPT ![c[1]][c[2]] = v] :
            a \in FullGrids, c \in ArrCells, v \in {1, 5, 9}}

InitFull ==
    /\ pc = "array"
    /\ grid = EmptyGrid
    /\ cursor_row = 0
    /\ cursor_col = 0
    /\ quit = TRUE
    /\ event = NoEvent
    /\ nEvents = 0
    /\ arr \in FullInputs
    /\ input = NoInput
    /\ data = NoData
    /\ initial_cells = {}
    /\ result = "none"
    /\ checks = 0
    /\ model_reads = 0
    /\ terminal = disable_raw_mode(execute_show_leave(TerminalSetUp))
    /\ restores = 1

SpecFull == InitFull /\ [][NextArr]_vars

----------------------------------------------------------------------------
(* The two constructors of Puzzle, each followed by solve: from_array on   *)
(* arrays of bytes and _parse on texts.                                    *)

\* lines of an input text that are drawn freely
MaxFreeLines == 1

Dots(n) == [k \in 1 .. n |-> "."]

\* a character of two bytes, as 'é' is
TwoBytes == "xx"

\* what a free line is drawn from: nine characters with digits or a
\* two-byte character among them, eight characters, ten, none, and two
\* lines of four characters
FreeLines ==
    {<<c[1], c[2]>> \o Dots(N - 2) : c \in {"5", "."} \X {"5", "6", "."}}
    \cup {<<TwoBytes>> \o Dots(N - 1)}
    \cup {Dots(N - 1), Dots(N + 1), <<>>, Dots(4) \o <<LF>> \o Dots(4)}

LineEnds == {<<LF>>, <<CR, LF>>}

RECURSIVE Concat(_)
Concat(seqs) == IF seqs = <<>> THEN <<>> ELSE Head(seqs) \o Concat(Tail(seqs))

\* n lines of nine dots, with a "\n" between them
DotLines(n) ==
    Concat([k \in 1 .. n |-> IF k < n THEN Dots(N) \o <<LF>> ELSE Dots(N)])

\* texts of 8, 9 or 10 lines, with a line ending after the last line or not
ParseInputs ==
    {Concat([k \in 1 .. MaxFreeLines |-> f[k][1] \o f[k][2]])
        \o DotLines(n - MaxFreeLines) \o tail :
     f \in [1 .. MaxFreeLines -> FreeLines \X LineEnds],
     n \in (N - 1) .. (N + 1),
     tail \in {<<>>, <<LF>>}}

\* the terminal as a run that never sets it up finds it
TerminalAsFound ==
    [raw_mode |-> FALSE, alternate_screen |-> FALSE, cursor_hidden |-> FALSE]

InitParse ==
    /\ pc = "parse"
    /\ grid = EmptyGrid
    /\ cursor_row = 0
    /\ cursor_col = 0
    /\ quit = FALSE
    /\ event = NoEvent
    /\ nEvents = 0
    /\ arr = ZeroArray
    /\ input \in ParseInputs
    /\ data = NoData
    /\ initial_cells = {}
    /\ result = "none"
    /\ checks = 0
    /\ model_reads = 0
    /\ terminal = TerminalAsFound
    /\ restores = 0

InitBoards == InitArr \/ InitParse

NextBoards ==
    \/ FromArray
    \/ Parse
    \/ ParseError
    \/ ParsePanic
    \/ SolveSat
    \/ SolveUnsat
    \/ SolveUnknown

SpecBoards == InitBoards /\ [][NextBoards]_vars

----------------------------------------------------------------------------
(* What the properties below speak of: the 81 cells of a Sudoku, by name,  *)
(* and its 27 groups.                                                      *)

Letters == <<"a", "b", "c", "d", "e", "f", "g", "h", "i">>
RowDigits == <<"0", "1", "2", "3", "4", "5", "6", "7", "8">>
Cell(col, row) == Letters[col + 1] \o RowDigits[row + 1]
AllCells == {Cell(col, row) : <<col, row>> \in Idx \X Idx}

RowCells(row) == {Cell(col, row) : col \in Idx}
ColCells(col) == {Cell(col, row) : row \in Idx}
BoxCells(b) ==
    {Cell(p[1], p[2]) :
        p \in {q \in Idx \X Idx : <<q[2] \div 3, q[1] \div 3>> = b}}
Groups ==
    {RowCells(row) : row \in Idx}
    \cup {ColCells(col) : col \in Idx}
    \cup {BoxCells(b) : b \in (0 .. 2) \X (0 .. 2)}

\* a board with a digit in each of the 81 cells and 9 different digits in
\* every row, column and box
Solved(d) ==
    /\ DOMAIN d = AllCells
    /\ Cardinality(DOMAIN d) = 81
    /\ \A k \in AllCells : d[k] \in 1 .. 9
    /\ \A g \in Groups : \A x, y \in g : x # y => d[x] # d[y]

\* the cells of a board that hold a digit
Filled(d) == {k \in DOMAIN d : d[k] # None}

\* the (row, col) cells of an editor grid that hold a digit
FilledCells(g) == {p \in Idx \X Idx : g[p[1]][p[2]] # None}

SameGroup(p, q) ==
    \/ p[1] = q[1]
    \/ p[2] = q[2]
    \/ (p[1] \div 3 = q[1] \div 3 /\ p[2] \div 3 = q[2] \div 3)

\* two cells of one row, column or box of the grid hold the same digit
HasDuplicate(g) ==
    \E p, q \in FilledCells(g) :
        p # q /\ SameGroup(p, q) /\ g[p[1]][p[2]] = g[q[1]][q[2]]

\* the board holds, cell by cell, what the editor grid holds
BoardIsGrid(d, g) ==
    /\ DOMAIN d = AllCells
    /\ \A p \in Idx \X Idx : d[Cell(p[2], p[1])] = g[p[1]][p[2]]

----------------------------------------------------------------------------
(* C1: when solve() gets Sat, the decoded board has a digit 1..9 in all 81 *)
(* entries, 9 pairwise-distinct digits in every row, column and 3x3 box,   *)
(* and every cell that was non-empty when the board was submitted still    *)
(* holds its submitted value.                                              *)
C1_SatSolvesBoard ==
    [][(pc = "built" /\ result' = "Sat") =>
        /\ Solved(data')
        /\ \A k \in Filled(data) : data'[k] = data[k]]_vars

\* a board submitted with two clues has been solved
C1_Witness ==
    /\ result = "Sat"
    /\ Cardinality(initial_cells) = 2
    /\ \A k \in initial_cells : k \in DOMAIN data /\ data[k] \in 1 .. 9
    /\ Cardinality(Filled(data)) = 81

(* C2: when the one check() returns Unsat or Unknown, solve() leaves the   *)
(* board as it was: the 81 data entries and the clue set are unchanged.    *)
C2_NoModelKeepsBoard ==
    [][(pc = "built" /\ result' \in {"Unsat", "Unknown"}) =>
        /\ data' = data
        /\ initial_cells' = initial_cells
        /\ Cardinality(DOMAIN data') = 81]_vars

\* solve() has returned from the Unknown arm on a board with clues
C2_Witness ==
    /\ pc = "done"
    /\ result = "Unknown"
    /\ initial_cells # {}
    /\ Filled(data) = initial_cells

(* C3: a grid with the same digit twice in a row, a column or a box is     *)
(* taken by the editor as it is; no assignment satisfies its constraint    *)
(* system, solve() does not take the Sat arm on it, and the board stays    *)
(* exactly as submitted.                                                   *)
C3_DuplicateIsUnsat ==
    (pc \in {"built", "done"} /\ HasDuplicate(grid)) =>
        /\ BoardIsGrid(data, grid)
        /\ pc = "built" => Models(data) = {}
        /\ result # "Sat"

\* solve() has answered Unsat on a grid with a duplicate
C3_Witness ==
    /\ pc = "done"
    /\ result = "Unsat"
    /\ HasDuplicate(grid)

----------------------------------------------------------------------------
(* What the editor's properties speak of: the keys of each editor event,   *)
(* and a step of the loop that takes a given event.                        *)

QuitKeys == {Char("q"), Char("Q"), Key("Esc")}
UpKeys == {Key("Up"), Char("w"), Char("W")}
DownKeys == {Key("Down"), Char("s"), Char("S")}
LeftKeys == {Key("Left"), Char("a"), Char("A")}
RightKeys == {Key("Right"), Char("d"), Char("D")}
MoveKeys == UpKeys \cup DownKeys \cup LeftKeys \cup RightKeys
DigitKey(k) == Char(DigitChars[k])
DigitKeys == {DigitKey(k) : k \in 1 .. 9}
ClearKeys == {Char("0"), Char(" "), Key("Backspace"), Key("Delete")}
ResetKeys == {Char("r"), Char("R")}
EditorKeys == QuitKeys \cup MoveKeys \cup DigitKeys \cup ClearKeys \cup ResetKeys

\* the direction of a Move key, as (rows, columns)
Delta(ev) ==
    CASE ev \in UpKeys -> <<-1, 0>>
      [] ev \in DownKeys -> <<1, 0>>
      [] ev \in LeftKeys -> <<0, -1>>
      [] ev \in RightKeys -> <<0, 1>>

Deltas == {<<-1, 0>>, <<1, 0>>, <<0, -1>>, <<0, 1>>}

\* this step reads one input event, and the event is in evs
Takes(evs) == nEvents' = nEvents + 1 /\ event' \in evs

CursorInGrid == cursor_row \in 0 .. 8 /\ cursor_col \in 0 .. 8

\* the grid after a write of val at the cursor, cell by cell
GridWith(val) ==
    [row \in Idx |-> [col \in Idx |->
        IF row = cursor_row /\ col = cursor_col THEN val ELSE grid[row][col]]]

----------------------------------------------------------------------------
(* C4: the solver is not invoked while the editing loop runs; after the    *)
(* Quit event (q, Q or Esc) no further input event is processed, the       *)
(* puzzle handed to solve() is the editor grid as it stood at Quit, and a  *)
(* run makes exactly one check(), with one model read only when that       *)
(* check returned Sat.                                                     *)
C4_OneCheckAfterQuit ==
    [][/\ Takes(QuitKeys) => quit' /\ grid' = grid
       /\ quit => nEvents' = nEvents /\ grid' = grid
       /\ checks' # checks =>
            /\ pc = "built" /\ quit
            /\ BoardIsGrid(data, grid)
            /\ checks = 0 /\ checks' = 1
       /\ model_reads' # model_reads =>
            /\ checks' # checks /\ result' = "Sat"
            /\ model_reads = 0 /\ model_reads' = 1
       /\ pc' = "done" =>
            /\ checks' = 1
            /\ model_reads' = (IF result' = "Sat" THEN 1 ELSE 0)
       /\ pc' # "done" => checks' = 0 /\ model_reads' = 0]_vars

\* a run that quit on a grid with a digit has made its check and read the model
C4_Witness ==
    /\ pc = "done"
    /\ quit
    /\ FilledCells(grid) # {}
    /\ checks = 1
    /\ model_reads = 1
    /\ result = "Sat"

(* C5: from the initial editor state (cursor at row 0, column 0), after    *)
(* any input events cursor_row and cursor_col are in 0..8, and each Move   *)
(* sets the cursor to (cursor + delta) mod 9 in both components: it wraps. *)
C5_CursorWraps ==
    [][/\ CursorInGrid
       /\ CursorInGrid'
       /\ \A ev \in MoveKeys :
            Takes({ev}) =>
                /\ cursor_row' = (cursor_row + Delta(ev)[1]) % 9
                /\ cursor_col' = (cursor_col + Delta(ev)[2]) % 9]_vars

\* the cursor has gone up from row 0 and left from column 0
C5_Witness ==
    /\ cursor_row = 8
    /\ cursor_col = 8
    /\ nEvents = 2
    /\ event \in UpKeys \cup LeftKeys

(* C6: moving right from column 8 puts the cursor on column 0 of the same  *)
(* row, moving up from row 0 puts it on row 8 of the same column, and from *)
(* each of the 81 cells nine moves in one direction end on the start cell. *)
C6_NineMovesReturn ==
    [][/\ (Takes(RightKeys) /\ cursor_col = 8) =>
            cursor_col' = 0 /\ cursor_row' = cursor_row
       /\ (Takes(UpKeys) /\ cursor_row = 0) =>
            cursor_row' = 8 /\ cursor_col' = cursor_col
       /\ \A d \in Deltas :
            move_cursor_times(9, cursor_row', cursor_col', d[1], d[2])
                = <<cursor_row', cursor_col'>>
       /\ \A d \in Deltas :
            move_cursor_times(9, cursor_row, cursor_col, d[1], d[2])
                = <<cursor_row, cursor_col>>]_vars

\* the cursor has gone right from column 8 of row 5
C6_Witness ==
    /\ nEvents = 1
    /\ event \in RightKeys
    /\ cursor_col = 0
    /\ cursor_row = 5

(* C7: a Set-digit event for k in 1..9 makes the cell at the cursor hold   *)
(* k and a Clear event (0, Space, Backspace, Delete) makes it empty,       *)
(* whatever it held; the other 80 cells and the cursor do not change.      *)
C7_WriteAtCursor ==
    [][/\ \A k \in 1 .. 9 :
            Takes({DigitKey(k)}) =>
                /\ grid' = GridWith(k)
                /\ cursor_row' = cursor_row /\ cursor_col' = cursor_col
       /\ Takes(ClearKeys) =>
                /\ grid' = GridWith(None)
                /\ cursor_row' = cursor_row /\ cursor_col' = cursor_col]_vars

\* a digit has been written at the cursor, on a cell away from the diagonal
C7_Witness ==
    /\ nEvents = 3
    /\ event = DigitKey(7)
    /\ cursor_row = 0
    /\ cursor_col = 1
    /\ FilledCells(grid) = {<<0, 1>>}
    /\ grid[0][1] = 7

(* C8: a Reset event (r or R) makes all 81 cells empty and leaves the      *)
(* cursor where it is.                                                     *)
C8_ResetEmptiesGrid ==
    [][Takes(ResetKeys) =>
        /\ \A p \in Idx \X Idx : grid'[p[1]][p[2]] = None
        /\ cursor_row' = cursor_row /\ cursor_col' = cursor_col]_vars

\* a Reset has been taken as the fourth event, with the cursor away from the
\* corner
C8_Witness ==
    /\ nEvents = 4
    /\ event \in ResetKeys
    /\ FilledCells(grid) = {}
    /\ cursor_row = 1
    /\ cursor_col = 0

(* C9: the editor has no transitions but Move, Set digit, Clear, Reset and *)
(* Quit: any other key event, and any input event that is no key event,    *)
(* leaves the grid, the cursor and the quit flag as they are, and the      *)
(* editing loop goes on.                                                   *)
C9_OtherEventsDoNothing ==
    [][/\ (nEvents' = nEvents + 1 /\ event' \notin EditorKeys) =>
            /\ grid' = grid
            /\ cursor_row' = cursor_row /\ cursor_col' = cursor_col
            /\ quit' = quit /\ ~quit'
            /\ pc' = "edit"
       /\ (pc = "edit" /\ ~quit /\ <<grid, cursor_row, cursor_col, quit>>'
                                     # <<grid, cursor_row, cursor_col, quit>>) =>
            Takes(EditorKeys)]_vars

\* a key bound to nothing has been read in a grid that holds a digit
C9_Witness ==
    /\ nEvents = 3
    /\ event = Key("Enter")
    /\ pc = "edit" /\ ~quit
    /\ grid[0][0] = 4

(* C10: Puzzle::from_array on a 9x9 array of u8 builds a board of exactly  *)
(* 81 entries, one per (col, row) key; an entry is the input value when    *)
(* that is in 1..9 and empty otherwise (0, or 10 and more); the clue set   *)
(* is the set of the keys whose input value is in 1..9.                    *)
C10_FromArray ==
    pc = "built" =>
        /\ DOMAIN data = AllCells
        /\ Cardinality(DOMAIN data) = 81
        /\ \A p \in Idx \X Idx :
            data[Cell(p[2], p[1])] =
                (IF arr[p[1]][p[2]] \in 1 .. 9 THEN arr[p[1]][p[2]] ELSE None)
        /\ initial_cells =
            {Cell(p[2], p[1]) : p \in {q \in Idx \X Idx : arr[q[1]][q[2]] \in 1 .. 9}}

\* a board built from an array holding a digit, a 0, a 10 and a 255
C10_Witness ==
    /\ pc = "built"
    /\ arr[0][0] = 10
    /\ arr[0][1] = 255
    /\ arr[1][0] = 9
    /\ arr[2][0] = 0
    /\ initial_cells = {"a1"}

----------------------------------------------------------------------------
(* What the properties of the boards speak of: the lines of a text, the    *)
(* cells given in the input of a run, and the style of a rendered cell.    *)

\* the lines of a text, which its line terminators ("\n", or "\r\n")
\* end: a terminator after the last line begins no line
TextLines(i) ==
    LET lf == {n \in DOMAIN i : i[n] = "\n"}
        nth(k) == CHOOSE n \in lf : Cardinality({m \in lf : m < n}) = k - 1
        start(k) == IF k = 1 THEN 1 ELSE nth(k - 1) + 1
        stop(k) ==
            IF k > Cardinality(lf) THEN Len(i)
            ELSE IF nth(k) - 1 >= start(k) /\ i[nth(k) - 1] = "\r"
                 THEN nth(k) - 2
                 ELSE nth(k) - 1
        pieces == Cardinality(lf) + 1
        lines == IF pieces >= 2 /\ start(pieces) > Len(i)
                 THEN pieces - 1
                 ELSE pieces
    IN  [k \in 1 .. lines |-> SubSeq(i, start(k), stop(k))]

\* exactly 9 lines of exactly 9 characters
WellShaped(i) ==
    LET lines == TextLines(i)
    IN  Len(lines) = 9 /\ \A j \in 1 .. 9 : Len(lines[j]) = 9

\* the run reads a text (piped mode) and not the editor's grid
Piped == input # <<>>

\* the (col, row) cells that hold a digit in the input of the run: in the
\* array of the editor's grid, or on the lines of the text
GivenCells ==
    IF Piped
    THEN LET lines == TextLines(input)
         IN  {p \in Idx \X Idx :
                /\ p[2] + 1 \in DOMAIN lines
                /\ p[1] + 1 \in DOMAIN lines[p[2] + 1]
                /\ lines[p[2] + 1][p[1] + 1] \in
                    {"1", "2", "3", "4", "5", "6", "7", "8", "9"}}
    ELSE {p \in Idx \X Idx : arr[p[2]][p[1]] \in 1 .. 9}

\* the style in which the board of the state is rendered at (col, row)
Style(col, row) == fmt(data, initial_cells)[row][col].style

(* C11: every board, whether built by from_array or by _parse, has at its  *)
(* construction exactly 81 entries, and every key of its clue set has a    *)
(* non-empty value.                                                        *)
C11_CluesHoldDigits ==
    pc = "built" =>
        /\ Cardinality(DOMAIN data) = 81
        /\ \A k \in initial_cells : k \in DOMAIN data /\ data[k] # None

(* C12: after a solve that got Sat, in both modes, a cell is rendered in   *)
(* the clue style exactly when it held a digit in the input and in the     *)
(* blue bold style exactly when the solver filled it; and a board built    *)
(* from an input whose only digit is a 5 at (0, 0) has exactly one key in  *)
(* its clue set.                                                           *)
C12_StyleTellsClues ==
    /\ (pc = "done" /\ result = "Sat") =>
        \A p \in Idx \X Idx :
            /\ Style(p[1], p[2]) = "plain" <=> p \in GivenCells
            /\ Style(p[1], p[2]) = "blue_bold" <=> p \notin GivenCells
    /\ (pc = "built" /\ GivenCells = {<<0, 0>>} /\ data["a0"] = 5) =>
        Cardinality(initial_cells) = 1

(* C13: _parse fails, with a parse error or a failed assertion and before  *)
(* any solve, on every text that is not exactly 9 lines of exactly 9       *)
(* characters: texts of 8 or 10 lines and texts with a line of another     *)
(* length never become a board.                                            *)
C13_IllShapedRejected ==
    (Piped /\ ~WellShaped(input)) =>
        /\ pc \in {"parse", "parse_error", "panic"}
        /\ checks = 0

(* C14: when drawing the screen or reading an input event fails in the     *)
(* interactive session, the error reaches the top level, the session ends  *)
(* without a solve, and the restoration of the terminal (cursor shown,     *)
(* alternate screen left, raw mode disabled) has been attempted before the *)
(* exit.                                                                   *)
C14_IoFailureRestores ==
    pc = "io_error" =>
        /\ checks = 0
        /\ data = NoData
        /\ restores >= 1

----------------------------------------------------------------------------
\* an array with a digit in every cell and 9 different digits in every row,
\* column and box
ValidGrid(a) ==
    /\ \A p \in Idx \X Idx : a[p[1]][p[2]] \in 1 .. 9
    /\ \A r \in Idx : Cardinality({a[r][c] : c \in Idx}) = 9
    /\ \A c \in Idx : Cardinality({a[r][c] : r \in Idx}) = 9
    /\ \A b \in (0 .. 2) \X (0 .. 2) :
        Cardinality({a[3 * b[1] + p[1]][3 * b[2] + p[2]] :
                        p \in (0 .. 2) \X (0 .. 2)}) = 9

\* the assignment that gives the variable of every cell the digit of the array
GridAssignment(a) ==
    [k \in AllCells |->
        LET p == CHOOSE p \in Idx \X Idx : Cell(p[1], p[2]) = k
        IN  a[p[2]][p[1]]]

(* C15: for a fully filled valid Sudoku grid the constraint system of the  *)
(* encoding is satisfiable, the grid itself is its only satisfying         *)
(* assignment, and the board after the decoding of a Sat answer is the     *)
(* submitted grid, cell by cell.                                           *)
C15_FullGridRoundTrip ==
    [][(pc = "built" /\ ValidGrid(arr)) =>
        /\ \A a \in Assertions(data) : Holds(GridAssignment(arr), a)
        /\ \A m \in Candidates :
            (\A a \in Assertions(data) : Holds(m, a)) => m = GridAssignment(arr)
        /\ result' # "Unsat"
        /\ result' = "Sat" =>
            /\ data' = data
            /\ BoardIsGrid(data', [row \in Idx |-> [col \in Idx |-> arr[row][col]]])
      ]_vars

\* a valid grid that is no shift of the base grid has come back from a Sat
\* answer
C15_Witness ==
    /\ pc = "done"
    /\ result = "Sat"
    /\ ValidGrid(arr)
    /\ arr[0][0] = 6 /\ arr[1][0] = 9 /\ arr[0][1] = 5
    /\ data["a0"] = 6 /\ data["a1"] = 9 /\ data["b0"] = 5

----------------------------------------------------------------------------
\* the keys built by the loops of solve for its 27 groups
GroupLoopKeys ==
    {row_vars(r)[n] : r \in Idx, n \in 1 .. 9}
    \cup {col_vars(c)[n] : c \in Idx, n \in 1 .. 9}
    \cup {box_vars(b[1], b[2])[n] : b \in (0 .. 2) \X (0 .. 2), n \in 1 .. 9}

\* the keys built anywhere in the program are the 81 cells, one per position
KeysBuilt ==
    /\ Cardinality(AllCells) = 81
    /\ \A k \in AllCells :
        Cardinality({p \in Idx \X Idx : key_fmt(p[1], p[2]) = k}) = 1
    /\ \A p \in Idx \X Idx :
        /\ key_fmt(p[1], p[2]) = Cell(p[1], p[2])
        /\ key_char(p[1], p[2]) = Cell(p[1], p[2])
    /\ Len(IntVarList) = 81
    /\ IntVarKeys = AllCells
    /\ {from_array_keys[n] : n \in DOMAIN from_array_keys} = AllCells
    /\ {parse_keys[n] : n \in DOMAIN parse_keys} = AllCells
    /\ GroupLoopKeys = AllCells

(* C16: (col, row) -> key is a bijection between the 81 positions and the  *)
(* 81 keys (column letter a..i, row digit 0..8): the keys are pairwise     *)
(* distinct and each is the key of one position; and every key built by    *)
(* from_array, by _parse, by Display::fmt and by the row, column and box   *)
(* loops of solve is one of the 81 keys of the variable table and of the   *)
(* board, so that no lookup of a key fails.                                *)
C16_KeysAreTheCells ==
    /\ KeysBuilt
    /\ pc \in {"built", "done"} =>
        /\ DOMAIN data = AllCells
        /\ \A k \in GroupLoopKeys \cup IntVarKeys : k \in DOMAIN data
        /\ \A k \in DOMAIN data : k \in IntVarKeys
        /\ initial_cells \subseteq AllCells

\* a board read from a text has been rendered and solved
C16_Witness ==
    /\ pc = "done"
    /\ Piped
    /\ result = "Sat"
    /\ Cardinality(DOMAIN data) = 81
    /\ fmt(data, initial_cells)[0][0].text = "5"

----------------------------------------------------------------------------
\* the cells of a distinctness assertion
CellsOf(a) == {a.vars[n] : n \in DOMAIN a.vars}

\* the distinctness assertions made for every board
DistinctAssertions == RowAssertions \cup ColAssertions \cup BoxAssertions

\* each of the three families of assertions splits the 81 cells into 9
\* groups of 9, and the box of (col, row) is the one of index
\* (row div 3, col div 3)
GroupsSplitCells ==
    /\ Cardinality(DistinctAssertions) = 27
    /\ {CellsOf(a) : a \in DistinctAssertions} = Groups
    /\ \A a \in DistinctAssertions :
        a.op = "distinct" /\ Len(a.vars) = 9 /\ Cardinality(CellsOf(a)) = 9
    /\ \A family \in {RowAssertions, ColAssertions, BoxAssertions} :
        /\ Cardinality(family) = 9
        /\ \A k \in AllCells :
            Cardinality({a \in family : k \in CellsOf(a)}) = 1
        /\ \A a, b \in family : a # b => CellsOf(a) \cap CellsOf(b) = {}
    /\ \A p \in Idx \X Idx :
        /\ Cell(p[1], p[2]) \in CellsOf(Assertion("distinct", row_vars(p[2]), 0))
        /\ Cell(p[1], p[2]) \in CellsOf(Assertion("distinct", col_vars(p[1]), 0))
        /\ Cell(p[1], p[2]) \in
            CellsOf(Assertion("distinct", box_vars(p[2] \div 3, p[1] \div 3), 0))

(* C17: the encoding asserts distinctness over exactly 27 groups of 9      *)
(* different cells each; every cell is in exactly one row group, one       *)
(* column group and one box group, the box of (col, row) being the one of  *)
(* index (row div 3, col div 3); two groups of one type share no cell.     *)
C17_GroupsPartition ==
    /\ GroupsSplitCells
    /\ pc = "built" =>
        {a \in Assertions(data) : a.op = "distinct"} = DistinctAssertions

\* solve() has answered Unsat on a board whose only duplicate is in a box
C17_Witness ==
    /\ pc = "done"
    /\ result = "Unsat"
    /\ arr[0][0] = 0
    /\ arr[0][1] = 5
    /\ arr[1][0] = 5

----------------------------------------------------------------------------
\* the equalities var = value of the non-empty entries of a board
ValueEqualities(d) == {Assertion("eq", <<k>>, d[k]) : k \in Filled(d)}

(* C18: the encoding asserts var = value for every non-empty entry of the  *)
(* board and for no empty entry, and does not consult the clue set: the    *)
(* constraint system, and with it the assignments that can satisfy it, is  *)
(* the one the 81 values determine, for the boards of from_array (clue set *)
(* = the keys of the digits) and for those of _parse with the same values  *)
(* (clue set = all keys) alike.                                            *)
C18_SystemFromValuesOnly ==
    pc = "built" =>
        /\ {a \in Assertions(data) : a.op = "eq"} = ValueEqualities(data)
        /\ Assertions(data) =
            RangeAssertions \cup DistinctAssertions \cup ValueEqualities(data)
        /\ Models(data) =
            {m \in StructuralModels \cup BoardModels(data) :
                /\ \A a \in StructuralAssertions : Holds(m, a)
                /\ \A k \in Filled(data) : m[k] = data[k]}

\* a board whose clue set is not the set of its non-empty entries is about
\* to be encoded
C18_Witness ==
    /\ pc = "built"
    /\ Piped
    /\ Filled(data) = {"a0", "b0"}
    /\ initial_cells = AllCells

----------------------------------------------------------------------------
(* C19: in the interactive mode the clue set of the puzzle handed to       *)
(* solve() is exactly the set of the cells that hold a digit in the        *)
(* editor's grid at Quit, each with the digit it holds then: a cell set    *)
(* and cleared again is no clue.                                           *)
C19_CluesAreGridAtQuit ==
    pc \in {"built", "done"} =>
        /\ initial_cells = {Cell(p[2], p[1]) : p \in FilledCells(grid)}
        /\ pc = "built" =>
            \A p \in FilledCells(grid) : data[Cell(p[2], p[1])] = grid[p[1]][p[2]]

\* a board built after a digit was set and cleared on one cell and a digit
\* was set on its right neighbour
C19_Witness ==
    /\ pc = "built"
    /\ nEvents = 5
    /\ grid[0][0] = None
    /\ grid[0][1] = 3
    /\ initial_cells = {"b0"}

----------------------------------------------------------------------------
(* C20: positions are kept from end to end, without a transposition: what  *)
(* the editor's grid holds at [r][c] when the loop is left is stored under *)
(* the key of column letter c and row digit r, the variable of that key    *)
(* gets the equality constraint, and the rendering prints the value of     *)
(* that key on row r of the puzzle, at cell c of the row.                  *)
C20_PositionsKept ==
    pc \in {"built", "done"} =>
        LET rendered == fmt(data, initial_cells)
        IN  /\ \A p \in Idx \X Idx :
                LET r == p[1]
                    c == p[2]
                    k == Cell(c, r)
                IN  /\ grid[r][c] # None => data[k] = grid[r][c]
                    /\ pc = "built" => data[k] = grid[r][c]
                    /\ rendered[r][c].text =
                        (IF data[k] = None THEN " " ELSE DigitChars[data[k]])
            /\ pc = "built" =>
                {a \in Assertions(data) : a.op = "eq"} =
                    {Assertion("eq", <<Cell(p[2], p[1])>>, grid[p[1]][p[2]]) :
                        p \in FilledCells(grid)}

\* a digit set on row 0, column 1 of the grid is printed as a clue on row 0,
\* cell 1 of the solved puzzle, and the cell below the corner as solved
C20_Witness ==
    /\ pc = "done"
    /\ result = "Sat"
    /\ FilledCells(grid) = {<<0, 1>>}
    /\ grid[0][1] = 7
    /\ data["b0"] = 7
    /\ fmt(data, initial_cells)[0][1] = [text |-> "7", style |-> "plain"]
    /\ fmt(data, initial_cells)[1][0].style = "blue_bold"

----------------------------------------------------------------------------
(* C21: in every state of the editor a Move event leaves each of the 81    *)
(* cells of the grid as it is, and a Quit event leaves the grid and the    *)
(* cursor as they are.                                                     *)
C21_MoveAndQuitFrame ==
    [][/\ Takes(MoveKeys) =>
            \A p \in Idx \X Idx : grid'[p[1]][p[2]] = grid[p[1]][p[2]]
       /\ Takes(QuitKeys) =>
            /\ \A p \in Idx \X Idx : grid'[p[1]][p[2]] = grid[p[1]][p[2]]
            /\ cursor_row' = cursor_row
            /\ cursor_col' = cursor_col]_vars

\* Quit has been taken after a digit was set and the cursor moved off it
C21_Witness ==
    /\ quit
    /\ nEvents = 3
    /\ event \in QuitKeys
    /\ FilledCells(grid) = {<<0, 0>>}
    /\ grid[0][0] = 4
    /\ cursor_row = 8
    /\ cursor_col = 0

====
